---------------------------- MODULE Spec2Model ----------------------------
(***************************************************************************)
(* A model of vinhjaxt/http-proxy-server: the framed-protocol TLS tunnel   *)
(* (tls-server/main.go: acceptConn, serve, main) and the HTTP CONNECT      *)
(* adapter (requestHandler, httpsHandler).                                 *)
(*                                                                         *)
(* Bytes are small integers.  A byte on the wire or in a pooled buffer is  *)
(* a cell <<byte, session>>: the second component is a history tag naming  *)
(* the session whose client sent the byte.  The code only ever looks at    *)
(* the first component.                                                    *)
(***************************************************************************)
EXTENDS Integers, Sequences, FiniteSets, TLC

(* ------------------------------ bounds -------------------------------- *)

\* clients that connect to the framed-protocol listener
MaxConns == 2
\* bytes the dialed target sends back during a relay
MaxDown == 1

(* -------------------------- program constants -------------------------- *)

\* '\n', the delimiter bytes.IndexRune looks for
NL == 10
\* var TCPKeepalive bool = true
TCPKeepalive == TRUE
\* var TCPKeepalivePeriod time.Duration (never assigned: the zero value)
TCPKeepalivePeriod == 0

VARIABLES
    mainPc,      \* main's accept loop: "accept", "returned", "panicked"
    lastAccept,  \* the result of the latest ln.Accept()
    pending,     \* clients that will still connect
    credsByte,   \* the configured secret ([]byte(*creds))
    sv,          \* per accepted connection: the serve goroutine and its sockets
    bufs,        \* contents of the buffers bytePool has created
    nbufs,       \* number of buffers bytePool.New has created
    pool,        \* bytePool: how many times each buffer sits in the pool
    proxyCreds,  \* the HTTP proxy's -u flag (user:pass)
    proxyAuth,   \* the HTTP proxy's expected Proxy-Authorization value
    rq,          \* the HTTP proxy: one request and the tunnel it opens
    ps           \* one initial read taken alone through the checks of serve

tunnelVars == <<mainPc, lastAccept, pending, credsByte, sv, bufs, nbufs, pool>>
proxyVars == <<proxyCreds, proxyAuth, rq>>
vars == <<tunnelVars, proxyVars, ps>>

Sessions == 1..MaxConns
BufIds == 1..MaxConns

Min(a, b) == IF a < b THEN a ELSE b

(* ------------------------------ bytes ---------------------------------- *)

Tag(bytes, s) == [i \in 1..Len(bytes) |-> <<bytes[i], s>>]
Bytes(cells) == [i \in 1..Len(cells) |-> cells[i][1]]

\* bytes.IndexRune(b, '\n') for an ASCII rune: the 0-based offset of the
\* first occurrence, -1 when there is none
IndexRune(b, r) ==
    IF \E i \in 1..Len(b) : b[i] = r
    THEN (CHOOSE i \in 1..Len(b) : b[i] = r /\ \A j \in 1..(i - 1) : b[j] # r) - 1
    ELSE -1

\* a variant of bufLen: no room for the newline
bufLenNoNewline == Len(credsByte) + 253 + 2 + 1 + 5

\* bufLen = credsLen + 253 + 2 + 1 + 5 + 1
bufLen == Len(credsByte) + 253 + 2 + 1 + 5 + 1
credsLen == Len(credsByte)

\* c.Read(buf) returning n bytes: the first n bytes of the buffer are
\* overwritten, the rest keeps what an earlier user left there
ReadInto(old, data) == data \o SubSeq(old, Len(data) + 1, Len(old))

(* ------------------------- handshake parsing --------------------------- *)

\* addr := buf[:n]
AddrView(buf, n) == SubSeq(buf, 1, n)

\* if n < credsLen
ShortRead(n) == n < credsLen

\* a variant of MisplacedNewline: the offset of the newline is not checked
MisplacedNewlineNever(idx) == FALSE

\* a variant of MisplacedNewline: the comparison is strict
MisplacedNewlineStrict(idx) == idx < credsLen

\* if idx <= credsLen
MisplacedNewline(idx) == idx <= credsLen

\* a variant of AuthEqual: only the lengths are compared
AuthEqualLength(addr) == Len(SubSeq(addr, 1, credsLen)) = Len(credsByte)

\* authStr := addr[:credsLen]; bytes.Equal(authStr, credsByte)
AuthEqual(addr) == SubSeq(addr, 1, credsLen) = credsByte

\* a variant of Rest: the slice starts at the newline
RestFromNewline(addr, idx) == SubSeq(addr, idx + 1, Len(addr))

\* rest := addr[idx+1:]
Rest(addr, idx) == SubSeq(addr, idx + 2, Len(addr))

\* addr = addr[credsLen:idx]
TargetAddr(addr, idx) == SubSeq(addr, credsLen + 1, idx)

\* the checks of serve between the read and the dial, in the code's order
Verdict(bytes, n) ==
    IF ShortRead(n) THEN "short"
    ELSE LET addr == AddrView(bytes, n)
             idx == IndexRune(addr, NL)
         IN  IF idx = -1 THEN "no_nl"
             ELSE IF MisplacedNewline(idx) THEN "bad_idx"
             ELSE IF ~AuthEqual(addr) THEN "auth"
             ELSE "ok"

(* ----------------------------- inputs ---------------------------------- *)

\* secrets the -u flag configures
Secrets == {<<1, 2>>, <<>>}

\* the secret with its last byte changed
Corrupt(secret) ==
    IF Len(secret) = 0 THEN secret
    ELSE [secret EXCEPT ![Len(secret)] = @ + 1]

\* what a client sends after the TLS handshake: <<first, later>>, the bytes
\* the initial read returns and the bytes that arrive after it
Arrivals ==
    { <<credsByte \o <<7, NL, 8>>, <<9>>>>,          \* secret, address, newline, payload
      <<credsByte \o <<7, NL>>, <<8>>>>,             \* the payload arrives later
      <<credsByte \o <<7>>, <<NL, 8>>>>,             \* the newline arrives later
      <<SubSeq(credsByte, 1, credsLen - 1) \o <<7>>, <<>>>>,   \* short, or no newline
      <<Corrupt(credsByte) \o <<7, NL, 8>>, <<>>>>,  \* wrong token
      <<credsByte \o <<NL, 8>>, <<>>>> }             \* empty address

\* errors ln.Accept() returns: whether the error is a net.Error, what its
\* Timeout() says, whether it is io.EOF itself, and whether its text holds
\* "use of closed network connection"
AcceptErrors ==
    { [netErr |-> TRUE,  timeout |-> TRUE,  eof |-> FALSE, closedMsg |-> FALSE],
      [netErr |-> FALSE, timeout |-> FALSE, eof |-> TRUE,  closedMsg |-> FALSE],
      [netErr |-> TRUE,  timeout |-> FALSE, eof |-> FALSE, closedMsg |-> TRUE],
      [netErr |-> TRUE,  timeout |-> FALSE, eof |-> FALSE, closedMsg |-> FALSE],
      [netErr |-> FALSE, timeout |-> FALSE, eof |-> FALSE, closedMsg |-> FALSE] }

NoError == [netErr |-> FALSE, timeout |-> FALSE, eof |-> FALSE, closedMsg |-> FALSE]

(* ------------------------------- state --------------------------------- *)

NoSession ==
    [ pc       |-> "none",   \* none, start, read, dial, leftover, relay, done
      spawned  |-> FALSE,    \* go serve(c) has run
      keepalive |-> FALSE,   \* SetKeepAlive(true) was called on the connection
      buf      |-> 0,        \* the pooled buffer the local variable buf refers to
      held     |-> FALSE,    \* between bytePool.Get and bytePool.Put
      puts     |-> 0,        \* calls of bytePool.Put
      uap      |-> FALSE,    \* the buffer was used after it was put back
      n        |-> 0,        \* serve's n: bytes the initial read returned
      first    |-> 0,        \* bytes the initial read took from the client
      idx      |-> -1,       \* offset of the first newline
      dials    |-> 0,        \* calls of localDialFunc
      raddr    |-> <<>>,     \* the address dialed
      outcome  |-> "none",   \* why the handler returned
      rdl      |-> FALSE,    \* a read deadline is set on c
      wdl      |-> FALSE,    \* a write deadline is set on r
      up       |-> "none",   \* go io.Copy(r, c): none, run, done
      stream   |-> <<>>,     \* everything the client sends
      cpos     |-> 0,        \* bytes of stream read from c so far
      trecv    |-> <<>>,     \* bytes written to r, in order
      tpend    |-> 0,        \* bytes the target sent that were not read from r yet
      cwritten |-> 0,        \* bytes written to c
      cGone    |-> FALSE,    \* the client closed its end
      tGone    |-> FALSE,    \* the target closed its end
      cClose   |-> 0,        \* calls of c.Close()
      rOpen    |-> FALSE,    \* the dial succeeded
      rClose   |-> 0 ]       \* calls of r.Close()

InitWith(clients) ==
    /\ mainPc = "accept"
    /\ lastAccept = [res |-> "none", err |-> NoError]
    /\ pending = clients
    /\ credsByte \in Secrets
    /\ sv = [s \in Sessions |-> NoSession]
    /\ bufs = [b \in BufIds |-> <<>>]
    /\ nbufs = 0
    /\ pool = [b \in BufIds |-> 0]

\* the HTTP proxy is another program: it takes no step beside the tunnel
NoRequest ==
    [ pc        |-> "none",  \* none, handler, dial, forward, respond, relay, done
      hdr       |-> <<>>,    \* ctx.Request.Header.Peek("Proxy-Authorization")
      method    |-> "",      \* ctx.Method()
      host      |-> <<>>,    \* ctx.Host()
      path      |-> <<>>,    \* ctx.Path()
      status    |-> 0,       \* the status set on ctx.Response (0: not set)
      responded |-> 0,       \* the status the client received (0: none)
      dials     |-> 0,       \* calls of localDialFunc
      raddr     |-> <<>>,    \* the address dialed
      hijack    |-> FALSE,   \* ctx.Hijack registered the relay callback
      outcome   |-> "none",
      up        |-> "none",  \* go io.Copy(r, clientConn): none, run, done
      stream    |-> <<>>,    \* what the client sends after its CONNECT request
      cpos      |-> 0,
      trecv     |-> <<>>,    \* bytes written to r
      tpend     |-> 0,
      cwritten  |-> 0,       \* bytes written to clientConn by the relay
      cGone     |-> FALSE,
      tGone     |-> FALSE,
      cClose    |-> 0,       \* calls of clientConn.Close() in the callback
      rOpen     |-> FALSE,
      rClose    |-> 0 ]      \* calls of r.Close()

\* no initial read is looked at on its own
NoParse ==
    [ pc       |-> "none",   \* none, input, parsed
      sent     |-> <<>>,     \* what the client sent
      fill     |-> 0,        \* the byte an earlier user left all over the buffer
      n        |-> 0,        \* the n that c.Read(buf) returns
      verdict  |-> "none",   \* where the checks of serve end
      idx      |-> -1,       \* serve's idx
      addr     |-> <<>>,     \* the address given to localDialFunc
      rest     |-> <<>>,     \* serve's rest
      panicked |-> FALSE ]   \* a slice expression was out of range

NoProxy ==
    /\ proxyCreds = <<>>
    /\ proxyAuth = <<>>
    /\ rq = NoRequest

Init == InitWith(MaxConns) /\ NoProxy /\ ps = NoParse

\* the process runs until main returns or panics
Alive == mainPc = "accept"

\* main returns or panics: the process ends, and with it its goroutines, its
\* buffers and its sockets
ProcessEnds ==
    /\ sv' = [s \in Sessions |-> NoSession]
    /\ bufs' = [b \in BufIds |-> <<>>]
    /\ nbufs' = 0
    /\ pool' = [b \in BufIds |-> 0]

ProcessRuns == UNCHANGED <<sv, bufs, nbufs, pool>>

(* ---------------------------- accept loop ------------------------------ *)

\* a variant of AcceptedIsTCP: main hands acceptConn the TCP listener
AcceptedIsTCPConn == TRUE

\* tls.NewListener(ln, ...).Accept() returns a *tls.Conn, so the assertion
\* c.(*net.TCPConn) in acceptConn does not hold for it
AcceptedIsTCP == FALSE

\* a variant of AcceptErrClass: the text of the error is not looked at
AcceptErrClassNoText(e) ==
    IF e.netErr /\ e.timeout THEN "retry"
    ELSE IF ~e.eof THEN "fatal"
    ELSE "eof"

\* a variant of AcceptErrClass: a timeout is returned like any other error
AcceptErrClassNoRetry(e) ==
    IF ~e.eof /\ ~e.closedMsg THEN "fatal"
    ELSE "eof"

\* how acceptConn and main treat a non-nil error of ln.Accept():
\* "retry" (sleep, continue), "eof" (return nil, io.EOF; main returns),
\* "fatal" (return nil, err; main panics)
AcceptErrClass(e) ==
    IF e.netErr /\ e.timeout THEN "retry"
    ELSE IF ~e.eof /\ ~e.closedMsg THEN "fatal"
    ELSE "eof"

NextSession == CHOOSE s \in Sessions :
                   sv[s].pc = "none" /\ \A t \in 1..(s - 1) : sv[t].pc # "none"

\* ln.Accept() returns a connection: keepalive is configured when the
\* connection is a *net.TCPConn, then main runs go serve(c)
AcceptOk ==
    /\ Alive
    /\ pending > 0
    /\ pending' = pending - 1
    /\ lastAccept' = [res |-> "conn", err |-> NoError]
    /\ \E kaErr \in BOOLEAN :
         IF AcceptedIsTCP /\ TCPKeepalive /\ kaErr
         THEN \* tc.Close(); return nil, err; main: log.Panicln(err)
              /\ mainPc' = "panicked"
              /\ ProcessEnds
         ELSE /\ sv' = [sv EXCEPT ![NextSession] =
                           [@ EXCEPT !.pc = "start", !.spawned = TRUE,
                                     !.keepalive = AcceptedIsTCP /\ TCPKeepalive]]
              /\ mainPc' = mainPc
              /\ UNCHANGED <<bufs, nbufs, pool>>
    /\ UNCHANGED <<credsByte, proxyVars, ps>>

\* ln.Accept() returns an error
AcceptError ==
    /\ Alive
    /\ \E e \in AcceptErrors :
         LET class == AcceptErrClass(e) IN
         /\ lastAccept' = [res |-> "err", err |-> e]
         /\ mainPc' = CASE class = "retry" -> "accept"
                        [] class = "eof"   -> "returned"
                        [] OTHER           -> "panicked"
         /\ IF class = "retry" THEN ProcessRuns ELSE ProcessEnds
    /\ UNCHANGED <<pending, credsByte, proxyVars, ps>>

(* ------------------------------ bytePool ------------------------------- *)

\* bytePool.Get(): a buffer that sits in the pool, or one New makes
Pooled == {b \in BufIds : pool[b] > 0}
GetChoices == Pooled \cup (IF nbufs < MaxConns THEN {nbufs + 1} ELSE {})

\* the pool after bytePool.Put(&buf) of buffer b, when put holds
PoolPut(b, put) == IF put THEN [pool EXCEPT ![b] = @ + 1] ELSE pool

(* -------------------------------- serve -------------------------------- *)

\* serve's first statements: defer c.Close(), bytePool.Get(), SetReadDeadline
ServeStart(s) ==
    /\ Alive
    /\ sv[s].pc = "start"
    /\ \E b \in GetChoices :
         /\ pool' = [pool EXCEPT ![b] = IF @ > 0 THEN @ - 1 ELSE 0]
         /\ nbufs' = IF b > nbufs THEN b ELSE nbufs
         /\ sv' = [sv EXCEPT ![s] =
                      [@ EXCEPT !.pc = "read", !.buf = b, !.held = TRUE, !.rdl = TRUE]]
    /\ UNCHANGED <<mainPc, lastAccept, pending, credsByte, bufs, proxyVars, ps>>

\* a variant of ReadDeadlineKept: the read deadline is never cleared
ReadDeadlineKeptAlways(verdict) == TRUE

\* whether the read deadline is still set on c behind the checks: it is
\* cleared by c.SetReadDeadline(zeroTime) once the read succeeded with
\* n >= credsLen
ReadDeadlineKept(verdict) == verdict \in {"read_err", "short"}

\* a variant of FailureReply: an authentication failure is answered
FailureReplyOnAuth(why) == IF why = "auth" THEN 1 ELSE 0

\* bytes serve writes to c on a path that returns before the relay: each of
\* them is bytePool.Put, log.Println and return
FailureReply(why) == 0

\* the handler returns before the dial: bytePool.Put(&buf), then the deferred
\* c.Close().  When serve returns, its locals buf, n and idx are gone.
Reject(s, why, n, stream) ==
    /\ pool' = PoolPut(sv[s].buf, TRUE)
    /\ sv' = [sv EXCEPT ![s] =
                 [@ EXCEPT !.pc = "done", !.outcome = why, !.held = FALSE,
                           !.first = n, !.stream = stream, !.cpos = n,
                           !.puts = @ + 1, !.cClose = @ + 1, !.buf = 0,
                           !.cwritten = @ + FailureReply(why),
                           !.rdl = ReadDeadlineKept(why),
                           !.uap = @ \/ ~sv[s].held]]

\* n, err := c.Read(buf) fails
ServeReadError(s) ==
    /\ Alive
    /\ sv[s].pc = "read"
    /\ Reject(s, "read_err", 0, <<>>)
    /\ UNCHANGED <<mainPc, lastAccept, pending, credsByte, bufs, nbufs, proxyVars, ps>>

\* n, err := c.Read(buf) returns n bytes, and the checks up to the dial
ServeRead(s) ==
    /\ Alive
    /\ sv[s].pc = "read"
    /\ \E a \in Arrivals :
         LET b == sv[s].buf
             n == Min(Len(a[1]), bufLen)
             content == ReadInto(bufs[b], Tag(SubSeq(a[1], 1, n), s))
             bytes == Bytes(content)
             verdict == Verdict(bytes, n)
             stream == Tag(a[1] \o a[2], s)
         IN  /\ bufs' = [bufs EXCEPT ![b] = content]
             /\ IF verdict = "ok"
                THEN /\ sv' = [sv EXCEPT ![s] =
                                  [@ EXCEPT !.pc = "dial", !.n = n, !.first = n,
                                            !.idx = IndexRune(AddrView(bytes, n), NL),
                                            !.stream = stream, !.cpos = n,
                                            !.rdl = ReadDeadlineKept(verdict),
                                            !.uap = @ \/ ~sv[s].held]]
                     /\ pool' = pool
                ELSE Reject(s, verdict, n, stream)
    /\ UNCHANGED <<mainPc, lastAccept, pending, credsByte, nbufs, proxyVars, ps>>

\* a variant of PutAfterDial: the buffer is put back once the address was
\* copied into the dial string, whether or not the dial succeeded
PutAfterDialAlways(dialOk) == TRUE

\* a variant of PutAfterDial: the failed dial returns without bytePool.Put
PutAfterDialNever(dialOk) == FALSE

\* whether serve puts the buffer back right after the dial: if err != nil
PutAfterDial(dialOk) == ~dialOk

\* r, err := localDialFunc("tcp", string(addr))
ServeDial(s) ==
    /\ Alive
    /\ sv[s].pc = "dial"
    /\ \E dialOk \in BOOLEAN :
         LET b == sv[s].buf
             addr == TargetAddr(AddrView(Bytes(bufs[b]), sv[s].n), sv[s].idx)
             put == PutAfterDial(dialOk)
         IN  /\ pool' = PoolPut(b, put)
             /\ sv' = [sv EXCEPT ![s] =
                          [@ EXCEPT !.pc = IF dialOk THEN "leftover" ELSE "done",
                                    !.outcome = IF dialOk THEN @ ELSE "dial",
                                    !.dials = @ + 1, !.raddr = addr,
                                    !.rOpen = dialOk,
                                    !.buf = IF dialOk THEN @ ELSE 0,
                                    !.n = IF dialOk THEN @ ELSE 0,
                                    !.idx = IF dialOk THEN @ ELSE -1,
                                    !.held = IF put THEN FALSE ELSE @,
                                    !.puts = IF put THEN @ + 1 ELSE @,
                                    !.cClose = IF dialOk THEN @ ELSE @ + 1,
                                    !.cwritten = IF dialOk THEN @
                                                 ELSE @ + FailureReply("dial"),
                                    !.uap = @ \/ ~sv[s].held]]
    /\ UNCHANGED <<mainPc, lastAccept, pending, credsByte, bufs, nbufs, proxyVars, ps>>

\* a variant of LeftoverWritten: the error of r.Write is not looked at
LeftoverWrittenAnyway(w, rest) == TRUE

\* r.Write(rest) wrote w bytes: err is nil when all of rest was written, and
\* there is no write at all when rest is empty
LeftoverWritten(w, rest) == w = Len(rest)

\* the leftover write, bytePool.Put(&buf), and go io.Copy(r, c)
ServeLeftover(s) ==
    /\ Alive
    /\ sv[s].pc = "leftover"
    /\ LET b == sv[s].buf
           rest == Rest(AddrView(bufs[b], sv[s].n), sv[s].idx)
       IN  \E w \in 0..Len(rest) :
             /\ pool' = PoolPut(b, TRUE)
             /\ IF LeftoverWritten(w, rest)
                THEN \* nothing to write, or r.Write(rest) wrote it all
                     sv' = [sv EXCEPT ![s] =
                               [@ EXCEPT !.pc = "relay", !.up = "run",
                                         !.trecv = @ \o SubSeq(rest, 1, w),
                                         !.held = FALSE, !.puts = @ + 1,
                                         !.uap = @ \/ ~sv[s].held]]
                ELSE \* r.Write(rest) failed after w bytes: Put, r.Close(), c.Close()
                     sv' = [sv EXCEPT ![s] =
                               [@ EXCEPT !.pc = "done", !.outcome = "write",
                                         !.trecv = @ \o SubSeq(rest, 1, w),
                                         !.wdl = TRUE,
                                         !.buf = 0, !.n = 0, !.idx = -1,
                                         !.held = FALSE, !.puts = @ + 1,
                                         !.rClose = @ + 1, !.cClose = @ + 1,
                                         !.cwritten = @ + FailureReply("write"),
                                         !.uap = @ \/ ~sv[s].held]]
    /\ UNCHANGED <<mainPc, lastAccept, pending, credsByte, bufs, nbufs, proxyVars, ps>>

(* -------------------------------- relay -------------------------------- *)

\* a variant of ClientReadEnds: a read of c outlasts c.Close()
ClientReadEndsPeerOnly(s) == sv[s].cGone

\* c.Read in io.Copy(r, c) returns an error: the client is gone, or c was
\* closed by the handler, which also ends a read that was waiting
ClientReadEnds(s) == sv[s].cGone \/ sv[s].cClose > 0

\* one round of go io.Copy(r, c): read from c, write what was read to r.
\* The copy ends when the read fails (the client is gone, or c was closed by
\* the handler) or the write fails (the target is gone, or r was closed).
UpCopy(s) ==
    /\ Alive
    /\ sv[s].up = "run"
    /\ IF ClientReadEnds(s)
       THEN sv' = [sv EXCEPT ![s] = [@ EXCEPT !.up = "done"]]
       ELSE /\ sv[s].cpos < Len(sv[s].stream)
            /\ IF sv[s].tGone \/ sv[s].rClose > 0
               THEN sv' = [sv EXCEPT ![s] =
                              [@ EXCEPT !.up = "done", !.cpos = @ + 1]]
               ELSE sv' = [sv EXCEPT ![s] =
                              [@ EXCEPT !.cpos = @ + 1,
                                        !.trecv = Append(@, sv[s].stream[sv[s].cpos + 1])]]
    /\ UNCHANGED <<mainPc, lastAccept, pending, credsByte, bufs, nbufs, pool, proxyVars, ps>>

\* serve returns from io.Copy(c, r): the deferred r.Close() and c.Close() run
RelayReturn(s) ==
    [sv EXCEPT ![s] = [@ EXCEPT !.pc = "done", !.outcome = "relayed",
                                !.buf = 0, !.n = 0, !.idx = -1,
                                !.rClose = @ + 1, !.cClose = @ + 1]]

\* one round of io.Copy(c, r) with a byte to read from r: it is written to c,
\* and the copy ends when that write fails
DownCopy(s) ==
    /\ Alive
    /\ sv[s].pc = "relay"
    /\ sv[s].tpend > 0
    /\ IF sv[s].cGone
       THEN sv' = RelayReturn(s)
       ELSE sv' = [sv EXCEPT ![s] =
                      [@ EXCEPT !.tpend = @ - 1, !.cwritten = @ + 1]]
    /\ UNCHANGED <<mainPc, lastAccept, pending, credsByte, bufs, nbufs, pool, proxyVars, ps>>

\* io.Copy(c, r) ends because the read from r fails or reaches the end
DownEnd(s) ==
    /\ Alive
    /\ sv[s].pc = "relay"
    /\ sv[s].tGone
    /\ sv[s].tpend = 0
    /\ sv' = RelayReturn(s)
    /\ UNCHANGED <<mainPc, lastAccept, pending, credsByte, bufs, nbufs, pool, proxyVars, ps>>

(* ------------------------------- peers --------------------------------- *)

\* the client closes its end of the connection
ClientClose(s) ==
    /\ Alive
    /\ sv[s].pc = "relay"
    /\ ~sv[s].cGone
    /\ sv' = [sv EXCEPT ![s] = [@ EXCEPT !.cGone = TRUE]]
    /\ UNCHANGED <<mainPc, lastAccept, pending, credsByte, bufs, nbufs, pool, proxyVars, ps>>

\* the target closes its end of the connection
TargetClose(s) ==
    /\ Alive
    /\ sv[s].pc = "relay"
    /\ ~sv[s].tGone
    /\ sv' = [sv EXCEPT ![s] = [@ EXCEPT !.tGone = TRUE]]
    /\ UNCHANGED <<mainPc, lastAccept, pending, credsByte, bufs, nbufs, pool, proxyVars, ps>>

\* the target sends a byte
TargetSend(s) ==
    /\ Alive
    /\ sv[s].pc = "relay"
    /\ ~sv[s].tGone
    /\ sv[s].tpend + sv[s].cwritten < MaxDown
    /\ sv' = [sv EXCEPT ![s] = [@ EXCEPT !.tpend = @ + 1]]
    /\ UNCHANGED <<mainPc, lastAccept, pending, credsByte, bufs, nbufs, pool, proxyVars, ps>>

(* --------------------------- specification ----------------------------- *)

\* the steps of the serve goroutine of session s
Handler(s) ==
    \/ ServeStart(s)
    \/ ServeReadError(s)
    \/ ServeRead(s)
    \/ ServeDial(s)
    \/ ServeLeftover(s)
    \/ DownCopy(s)
    \/ DownEnd(s)

\* the steps of the peers of session s
Peers(s) ==
    \/ ClientClose(s)
    \/ TargetClose(s)
    \/ TargetSend(s)

Next ==
    \/ AcceptOk
    \/ AcceptError
    \/ \E s \in Sessions : Handler(s) \/ UpCopy(s) \/ Peers(s)

Spec == Init /\ [][Next]_vars

\* One client, and the scheduling the Go runtime gives: a goroutine that can
\* take a step takes one.  The initial read, the dial and the leftover write
\* run under dialTimeout, so they return.  Nothing is assumed of the
\* listener or of the peers.
FairInit == InitWith(1) /\ NoProxy /\ ps = NoParse

FairSpec ==
    /\ FairInit
    /\ [][Next]_vars
    /\ \A s \in Sessions : WF_vars(Handler(s)) /\ WF_vars(UpCopy(s))

(* ------------------- the HTTP proxy: CONNECT adapter ------------------- *)

\* fasthttp.StatusOK, StatusBadRequest, StatusInternalServerError
StatusOK == 200
StatusBadRequest == 400
StatusInternalServerError == 500

\* the alphabet of base64.StdEncoding, as character codes
B64Char(i) ==
    IF i < 26 THEN 65 + i
    ELSE IF i < 52 THEN 97 + (i - 26)
    ELSE IF i < 62 THEN 48 + (i - 52)
    ELSE IF i = 62 THEN 43 ELSE 47

\* base64.StdEncoding.EncodeToString: three bytes make four characters, a
\* shorter tail is padded with '='
RECURSIVE EncodeToString(_)
EncodeToString(src) ==
    IF Len(src) = 0 THEN <<>>
    ELSE IF Len(src) = 1
    THEN LET v == src[1] * 65536
         IN  <<B64Char(v \div 262144), B64Char((v \div 4096) % 64), 61, 61>>
    ELSE IF Len(src) = 2
    THEN LET v == src[1] * 65536 + src[2] * 256
         IN  <<B64Char(v \div 262144), B64Char((v \div 4096) % 64),
               B64Char((v \div 64) % 64), 61>>
    ELSE LET v == src[1] * 65536 + src[2] * 256 + src[3]
         IN  <<B64Char(v \div 262144), B64Char((v \div 4096) % 64),
               B64Char((v \div 64) % 64), B64Char(v % 64)>>
             \o EncodeToString(SubSeq(src, 4, Len(src)))

\* "Basic "
BasicPrefix == <<66, 97, 115, 105, 99, 32>>

\* main: proxyAuth stays nil without -u, else "Basic " + base64(creds)
ProxyAuthOf(creds) ==
    IF creds = <<>> THEN <<>> ELSE BasicPrefix \o EncodeToString(creds)

\* the -u flag: not given, "u:p", "u:"
CredsChoices == {<<>>, <<117, 58, 112>>, <<117, 58>>}

\* Proxy-Authorization headers a client may send: none, "Basic dTpw",
\* "Basic dTo=", "u:p", "Basic dTpw ", "basic dTpw", "dTpw"
AuthHeaders ==
    { <<>>,
      <<66, 97, 115, 105, 99, 32, 100, 84, 112, 119>>,
      <<66, 97, 115, 105, 99, 32, 100, 84, 111, 61>>,
      <<117, 58, 112>>,
      <<66, 97, 115, 105, 99, 32, 100, 84, 112, 119, 32>>,
      <<98, 97, 115, 105, 99, 32, 100, 84, 112, 119>>,
      <<100, 84, 112, 119>> }

\* ctx.Host(): with a port, without, empty, not a host:port
Hosts == { <<"h", ":", "4">>, <<"h">>, <<>>, <<"h", ":", "4", ":", "4">> }

\* ctx.Path()
Paths == { <<"/">>, <<"/", "g", ":", "5">> }

Methods == {"CONNECT", "GET"}

\* the header compared with a prefix test
AuthHeaderHasPrefix(hdr) ==
    /\ Len(proxyAuth) <= Len(hdr)
    /\ \A i \in 1..Len(proxyAuth) : hdr[i] = proxyAuth[i]

\* bytes.Equal(ctx.Request.Header.Peek("Proxy-Authorization"), proxyAuth)
AuthHeaderOK(hdr) == hdr = proxyAuth

\* host := string(ctx.Host()), or string(ctx.Path())[1:] when that is empty
EffectiveHost(host, path) == IF Len(host) < 1 THEN Tail(path) ELSE host

\* net.SplitHostPort for a name without brackets: the port follows the last
\* colon, and the host holds no colon
SplitHostPort(hp) ==
    LET colons == {i \in 1..Len(hp) : hp[i] = ":"}
    IN  IF colons = {}
        THEN [err |-> "missing port", hostname |-> <<>>, port |-> <<>>]
        ELSE LET i == CHOOSE c \in colons : \A d \in colons : d <= c
             IN  IF \E d \in colons : d < i
                 THEN [err |-> "too many colons", hostname |-> <<>>, port |-> <<>>]
                 ELSE [err |-> "", hostname |-> SubSeq(hp, 1, i - 1),
                       port |-> SubSeq(hp, i + 1, Len(hp))]

\* requestHandler: a host without a port is split again with ":443"
SplitDefault443(host) ==
    LET sp == SplitHostPort(host)
    IN  IF sp.err = "missing port"
        THEN SplitHostPort(host \o <<":", "4", "4", "3">>)
        ELSE sp

\* `[`+hostname+`]:`+port
Bracketed(hostname, port) == <<"[">> \o hostname \o <<"]", ":">> \o port

\* ctx.Response.StatusCode(): 200 unless the handler set another
SentStatus(status) == IF status = 0 THEN StatusOK ELSE status

InitConnect ==
    /\ InitWith(0)
    /\ ps = NoParse
    /\ credsByte = <<>>
    /\ proxyCreds \in CredsChoices
    /\ proxyAuth = ProxyAuthOf(proxyCreds)
    /\ \E h \in AuthHeaders, m \in Methods, host \in Hosts, p \in Paths :
         rq = [NoRequest EXCEPT !.pc = "handler", !.hdr = h, !.method = m,
                                !.host = host, !.path = p]

\* the handler returns without a dial: the response is left to the server
Refuse(status, why) ==
    rq' = [rq EXCEPT !.pc = "respond", !.status = status, !.outcome = why]

\* requestHandler up to the dial or the forward
RequestHandler ==
    /\ rq.pc = "handler"
    /\ IF proxyAuth # <<>> /\ ~AuthHeaderOK(rq.hdr)
       THEN Refuse(StatusBadRequest, "wrong_creds")
       ELSE LET host == EffectiveHost(rq.host, rq.path)
                sp == SplitDefault443(host)
            IN  IF Len(host) < 1
                THEN Refuse(StatusBadRequest, "empty_host")
                ELSE IF sp.err # ""
                THEN Refuse(StatusBadRequest, "invalid_host")
                ELSE IF rq.method = "CONNECT"
                THEN rq' = [rq EXCEPT !.pc = "dial",
                                      !.raddr = Bracketed(sp.hostname, sp.port)]
                ELSE rq' = [rq EXCEPT !.pc = "forward"]
    /\ UNCHANGED <<tunnelVars, proxyCreds, proxyAuth, ps>>

\* a variant of DialStatus: the status is set before the dial
DialStatusAlwaysOK(ok) == StatusOK

\* the status after httpsHandler: ctx.SetStatusCode(fasthttp.StatusOK) behind
\* a successful dial, StatusInternalServerError when it returned an error
DialStatus(ok) == IF ok THEN StatusOK ELSE StatusInternalServerError

\* httpsHandler: dial, then status 200 and ctx.Hijack; a failed dial makes
\* requestHandler set status 500
HttpsDial ==
    /\ rq.pc = "dial"
    /\ \E ok \in BOOLEAN :
         IF ok
         THEN rq' = [rq EXCEPT !.pc = "respond", !.dials = @ + 1,
                               !.rOpen = TRUE, !.status = DialStatus(ok),
                               !.hijack = TRUE]
         ELSE rq' = [rq EXCEPT !.pc = "respond", !.dials = @ + 1,
                               !.status = DialStatus(ok),
                               !.outcome = "dial"]
    /\ UNCHANGED <<tunnelVars, proxyCreds, proxyAuth, ps>>

\* httpClientLocal.DoTimeout: the upstream's response is copied, an error
\* makes the status 500
Forward ==
    /\ rq.pc = "forward"
    /\ \E st \in {StatusOK, StatusInternalServerError} :
         rq' = [rq EXCEPT !.pc = "respond", !.status = st,
                          !.outcome = "forwarded"]
    /\ UNCHANGED <<tunnelVars, proxyCreds, proxyAuth, ps>>

\* the server writes the response once requestHandler has returned.  The
\* callback given to ctx.Hijack runs only when that write succeeded.
Respond ==
    /\ rq.pc = "respond"
    /\ \E wrote \in BOOLEAN :
         IF wrote /\ rq.hijack
         THEN rq' = [rq EXCEPT !.pc = "relay", !.up = "run",
                               !.responded = SentStatus(rq.status),
                               !.stream = <<21>>]
         ELSE rq' = [rq EXCEPT !.pc = "done",
                               !.responded = IF wrote THEN SentStatus(rq.status)
                                             ELSE 0]
    /\ UNCHANGED <<tunnelVars, proxyCreds, proxyAuth, ps>>

\* one round of go io.Copy(r, clientConn) in the callback
HijackUpCopy ==
    /\ rq.up = "run"
    /\ IF rq.cGone \/ rq.cClose > 0
       THEN rq' = [rq EXCEPT !.up = "done"]
       ELSE /\ rq.cpos < Len(rq.stream)
            /\ IF rq.tGone \/ rq.rClose > 0
               THEN rq' = [rq EXCEPT !.up = "done", !.cpos = @ + 1]
               ELSE rq' = [rq EXCEPT !.cpos = @ + 1,
                                     !.trecv = Append(@, rq.stream[rq.cpos + 1])]
    /\ UNCHANGED <<tunnelVars, proxyCreds, proxyAuth, ps>>

\* the callback returns from io.Copy(clientConn, r): the deferred r.Close()
\* and clientConn.Close() run
HijackReturn ==
    [rq EXCEPT !.pc = "done", !.outcome = "relayed",
               !.rClose = @ + 1, !.cClose = @ + 1]

\* one round of io.Copy(clientConn, r) with a byte to read from r
HijackDownCopy ==
    /\ rq.pc = "relay"
    /\ rq.tpend > 0
    /\ IF rq.cGone
       THEN rq' = HijackReturn
       ELSE rq' = [rq EXCEPT !.tpend = @ - 1, !.cwritten = @ + 1]
    /\ UNCHANGED <<tunnelVars, proxyCreds, proxyAuth, ps>>

\* io.Copy(clientConn, r) ends because the read from r fails or reaches the end
HijackDownEnd ==
    /\ rq.pc = "relay"
    /\ rq.tGone
    /\ rq.tpend = 0
    /\ rq' = HijackReturn
    /\ UNCHANGED <<tunnelVars, proxyCreds, proxyAuth, ps>>

\* the client closes its end of the connection
HijackClientClose ==
    /\ rq.pc = "relay"
    /\ ~rq.cGone
    /\ rq' = [rq EXCEPT !.cGone = TRUE]
    /\ UNCHANGED <<tunnelVars, proxyCreds, proxyAuth, ps>>

\* the target closes its end of the connection
HijackTargetClose ==
    /\ rq.pc = "relay"
    /\ ~rq.tGone
    /\ rq' = [rq EXCEPT !.tGone = TRUE]
    /\ UNCHANGED <<tunnelVars, proxyCreds, proxyAuth, ps>>

\* the target sends a byte
HijackTargetSend ==
    /\ rq.pc = "relay"
    /\ ~rq.tGone
    /\ rq.tpend + rq.cwritten < MaxDown
    /\ rq' = [rq EXCEPT !.tpend = @ + 1]
    /\ UNCHANGED <<tunnelVars, proxyCreds, proxyAuth, ps>>

NextConnect ==
    \/ RequestHandler
    \/ HttpsDial
    \/ Forward
    \/ Respond
    \/ HijackUpCopy
    \/ HijackDownCopy
    \/ HijackDownEnd
    \/ HijackClientClose
    \/ HijackTargetClose
    \/ HijackTargetSend

SpecConnect == InitConnect /\ [][NextConnect]_vars

\* the steps of the server's task for the request: requestHandler, the
\* write of the response, and the callback's io.Copy(clientConn, r)
ConnectHandler ==
    \/ RequestHandler
    \/ HttpsDial
    \/ Forward
    \/ Respond
    \/ HijackDownCopy
    \/ HijackDownEnd

\* The scheduling the Go runtime gives: a task that can take a step takes
\* one.  The dial, the forward and the write of the response run under
\* timeouts, so they return.  Nothing is assumed of the peers.
FairSpecConnect ==
    /\ InitConnect
    /\ [][NextConnect]_vars
    /\ WF_vars(ConnectHandler)
    /\ WF_vars(HijackUpCopy)

(* ------------------- the checks of serve, taken alone ------------------ *)

\* the longest address the buffer is sized for: domain, brackets, colon, port
MaxAddrLen == 253 + 2 + 1 + 5

\* secrets of several lengths, one of them holding a newline
ParseSecrets == {<<>>, <<1>>, <<1, 2>>, <<1, NL>>}

\* an address of alen bytes, none of them a newline
AddrOf(alen) == [i \in 1..alen |-> 32 + (i % 64)]

\* what a client sends: a prefix of the secret; or the secret or a wrong
\* token, an address of a length around the limit, and then nothing, a
\* newline, or a newline and a payload
ParseInputs ==
    { SubSeq(credsByte, 1, k) : k \in 0..credsLen }
    \cup { tok \o AddrOf(alen) \o tail :
             tok \in {credsByte, Corrupt(credsByte)},
             alen \in {0, 1, MaxAddrLen - 1, MaxAddrLen, MaxAddrLen + 1},
             tail \in {<<>>, <<NL>>, <<NL, 8, 9>>} }

\* the n that c.Read(buf) may return for what was sent: up to the length of
\* the buffer, and possibly less than what was sent
ReadSizes(sent) ==
    { k \in {0, credsLen - 1, credsLen, credsLen + 1,
             Len(sent) - 1, Len(sent), bufLen - 1, bufLen} :
        0 <= k /\ k <= Len(sent) /\ k <= bufLen }

\* Go's bounds check of b[lo:hi] for a slice b of capacity cap
SliceInRange(lo, hi, cap) == 0 <= lo /\ lo <= hi /\ hi <= cap

\* the slice expressions serve evaluates on its way to a verdict, as
\* <<lo, hi>>: buf[:n]; addr[:credsLen] once the newline checks passed;
\* addr[idx+1:] and addr[credsLen:idx] once the token matched
SlicesEvaluated(verdict, n, idx) ==
    (IF verdict # "short" THEN {<<0, n>>} ELSE {})
    \cup (IF verdict \in {"auth", "ok"} THEN {<<0, credsLen>>} ELSE {})
    \cup (IF verdict = "ok" THEN {<<idx + 1, n>>, <<credsLen, idx>>} ELSE {})

InitParse ==
    /\ mainPc = "accept"
    /\ lastAccept = [res |-> "none", err |-> NoError]
    /\ pending = 0
    /\ credsByte \in ParseSecrets
    /\ sv = [s \in Sessions |-> NoSession]
    /\ bufs = [b \in BufIds |-> <<>>]
    /\ nbufs = 0
    /\ pool = [b \in BufIds |-> 0]
    /\ NoProxy
    /\ \E sent \in ParseInputs, fill \in {0, NL} :
         \E n \in ReadSizes(sent) :
           ps = [NoParse EXCEPT !.pc = "input", !.sent = sent,
                                !.fill = fill, !.n = n]

\* serve from c.Read(buf) to the call of localDialFunc, on a buffer of bufLen
\* bytes that an earlier user left full of ps.fill
ServeParse ==
    /\ ps.pc = "input"
    /\ LET old == [i \in 1..bufLen |-> ps.fill]
           content == ReadInto(old, SubSeq(ps.sent, 1, ps.n))
           verdict == Verdict(content, ps.n)
           addr == AddrView(content, ps.n)
           idx == IndexRune(addr, NL)
       IN  ps' = [ps EXCEPT
                    !.pc = "parsed",
                    !.verdict = verdict,
                    !.idx = idx,
                    !.addr = IF verdict = "ok" THEN TargetAddr(addr, idx) ELSE <<>>,
                    !.rest = IF verdict = "ok" THEN Rest(addr, idx) ELSE <<>>,
                    !.panicked = \E sl \in SlicesEvaluated(verdict, ps.n, idx) :
                                    ~SliceInRange(sl[1], sl[2], bufLen)]
    /\ UNCHANGED <<tunnelVars, proxyVars>>

NextParse == ServeParse

SpecParse == InitParse /\ [][NextParse]_vars

(* ------------------------- what the clients sent ----------------------- *)

\* the bytes the initial read of session s took from its client
FirstRead(s) == SubSeq(Bytes(sv[s].stream), 1, sv[s].first)

\* the first credsLen bytes of the handshake equal the configured secret
TokenMatches(s) ==
    /\ sv[s].first >= credsLen
    /\ \A i \in 1..credsLen : FirstRead(s)[i] = credsByte[i]

\* the initial read is long enough and its first newline lies behind the
\* secret and a non-empty address
WellFramed(s) ==
    /\ sv[s].first >= credsLen
    /\ \E i \in (credsLen + 2)..sv[s].first :
         /\ FirstRead(s)[i] = NL
         /\ \A j \in 1..(i - 1) : FirstRead(s)[j] # NL

\* the initial read of session s has returned
HasRead(s) == sv[s].pc \in {"dial", "leftover", "relay", "done"} /\ sv[s].outcome # "read_err"

\* what the client of session s sent after the newline that ends its handshake
AfterHandshake(s) ==
    LET st == sv[s].stream
        nl == CHOOSE i \in 1..Len(st) : st[i][1] = NL /\ \A j \in 1..(i - 1) : st[j][1] # NL
    IN  SubSeq(st, nl + 1, Len(st))

IsPrefix(p, q) == Len(p) <= Len(q) /\ \A i \in 1..Len(p) : p[i] = q[i]

(* ------------------------------- claims -------------------------------- *)

\* C1: a session whose handshake does not start with the configured secret,
\* byte for byte, is rejected and never dials: a dial implies that the token
\* the client sent matched.
C1_DialImpliesTokenMatch ==
    \A s \in Sessions :
      /\ sv[s].dials > 0 => TokenMatches(s)
      /\ HasRead(s) /\ ~TokenMatches(s) =>
           sv[s].pc = "done" /\ sv[s].dials = 0 /\ ~sv[s].rOpen /\ sv[s].cClose = 1

\* C1 witness: a handshake with a wrong token, long enough and well framed,
\* was rejected for its token
C1_Witness ==
    \E s \in Sessions :
      /\ sv[s].outcome = "auth"
      /\ WellFramed(s)
      /\ ~TokenMatches(s)

C3_PayloadFirstInOrder ==
    \A s \in Sessions :
      sv[s].rOpen =>
        /\ IsPrefix(sv[s].trecv, AfterHandshake(s))
        /\ sv[s].up # "none" =>
             Len(sv[s].trecv) >= sv[s].first - (Len(sv[s].stream) - Len(AfterHandshake(s)))
        /\ sv[s].up = "run" /\ ~sv[s].tGone /\ sv[s].rClose = 0 =>
             sv[s].trecv = SubSeq(AfterHandshake(s), 1, Len(sv[s].trecv))
                /\ Len(sv[s].trecv) = sv[s].cpos - (Len(sv[s].stream) - Len(AfterHandshake(s)))

\* C3 witness: the target holds a payload byte of the handshake followed by a
\* byte the relay read later
C3_Witness ==
    \E s \in Sessions :
      /\ sv[s].pc = "relay"
      /\ Len(AfterHandshake(s)) = 2
      /\ sv[s].first = Len(sv[s].stream) - 1
      /\ sv[s].trecv = AfterHandshake(s)

\* C5: with sessions running side by side and sharing bytePool, no byte of
\* one session's client reaches another session's target; a pooled buffer is
\* held by at most one handler at a time, and no handler uses its buffer (or
\* the slices addr and rest into it) after putting it back.
C5_NoCrossTalk ==
    /\ \A s \in Sessions : \A i \in 1..Len(sv[s].trecv) : sv[s].trecv[i][2] = s
    /\ \A s, u \in Sessions :
         s # u /\ sv[s].held /\ sv[u].held => sv[s].buf # sv[u].buf
    /\ \A s \in Sessions : sv[s].held => pool[sv[s].buf] = 0
    /\ \A b \in BufIds : pool[b] <= 1
    /\ \A s \in Sessions : ~sv[s].uap

\* C5 witness: two sessions relay at once, and the buffer one of them parsed
\* its handshake in still holds a byte the other session's client sent
C5_Witness ==
    \E s, u \in Sessions :
      /\ s # u
      /\ sv[s].pc = "relay" /\ sv[u].pc = "relay"
      /\ sv[s].trecv # <<>> /\ sv[u].trecv # <<>>
      /\ sv[s].buf = sv[u].buf
      /\ \E i \in 1..Len(bufs[sv[s].buf]) : bufs[sv[s].buf][i][2] = u
      /\ \E i \in 1..Len(bufs[sv[s].buf]) : bufs[sv[s].buf][i][2] = s

\* ln.Accept() returned an error that is not timeout-class
StopError(r) == r.res = "err" /\ ~(r.err.netErr /\ r.err.timeout)

\* C8: no failure of a single accepted connection ends the accept loop or the
\* process, or touches another session: the loop ends only in a step in which
\* ln.Accept() returns a non-timeout error, and while the process runs a step
\* changes the state of at most one session.
C8_FailuresStayLocal ==
    [][ /\ mainPc' # "accept" => mainPc = "accept" /\ StopError(lastAccept')
        /\ mainPc' = "accept" =>
             \A s, u \in Sessions : s # u /\ sv'[s] # sv[s] => sv'[u] = sv[u]
        /\ (\E s \in Sessions : sv[s].pc # "done" /\ sv'[s].pc = "done") =>
             mainPc' = "accept" /\ lastAccept' = lastAccept /\ pending' = pending
      ]_vars

\* C8 witness: one session failed (its dial did not succeed), the accept loop
\* goes on and the other session relays
C8_Witness ==
    \E s, u \in Sessions :
      /\ sv[s].pc = "done" /\ sv[s].outcome = "dial"
      /\ sv[u].pc = "relay" /\ sv[u].trecv # <<>>
      /\ mainPc = "accept"

\* C9: a non-timeout accept error that is io.EOF or says "use of closed
\* network connection" ends the loop cleanly (main returns); any other ends
\* it fatally (main panics); no handler is dispatched and no accept is
\* attempted after either.
C9_AcceptErrorStops ==
    /\ [](StopError(lastAccept) =>
            IF lastAccept.err.eof \/ lastAccept.err.closedMsg
            THEN mainPc = "returned"
            ELSE mainPc = "panicked")
    /\ [][mainPc # "accept" => UNCHANGED vars]_vars
    /\ [][StopError(lastAccept') /\ lastAccept' # lastAccept =>
            \A s \in Sessions : ~sv'[s].spawned \/ sv[s].spawned]_vars

\* C9 witness: the listener was closed after a connection had been accepted,
\* and main has returned
C9_Witness ==
    /\ mainPc = "returned"
    /\ lastAccept.res = "err" /\ lastAccept.err.closedMsg
    /\ pending < MaxConns

\* C10: a timeout-class accept error never ends the accept loop and is never
\* returned from acceptConn: after it the loop is still accepting, and the
\* next connection the listener returns is dispatched to a handler.
C10_TimeoutRetries ==
    /\ [](lastAccept.res = "err" /\ lastAccept.err.netErr /\ lastAccept.err.timeout =>
            mainPc = "accept")
    /\ [][lastAccept'.res = "conn" /\ pending' < pending =>
            /\ mainPc' = "accept"
            /\ \E s \in Sessions :
                 sv[s].pc = "none" /\ sv'[s].pc = "start" /\ sv'[s].spawned]_vars

\* C10 witness: a connection was accepted and dispatched, then the listener
\* returned a timeout, and the loop still accepts with a client yet to come
C10_Witness ==
    /\ lastAccept.res = "err" /\ lastAccept.err.timeout
    /\ mainPc = "accept"
    /\ pending > 0
    /\ \E s \in Sessions : sv[s].spawned

\* C4: while a relay is active, the end of either copy direction tears the
\* session down: once the client has closed, the target connection is
\* eventually closed, and once the target has closed, the client connection
\* is eventually closed, whatever the other peer does.
C4_EitherEndTearsDown ==
    \A s \in Sessions :
      /\ (sv[s].pc = "relay" /\ sv[s].cGone) ~> (~Alive \/ sv[s].rClose > 0)
      /\ (sv[s].pc = "relay" /\ sv[s].tGone) ~> (~Alive \/ sv[s].cClose > 0)

(* --------------------------- CONNECT adapter --------------------------- *)

\* what a client that knows the credentials sends: "Basic dTpw" for "u:p",
\* "Basic dTo=" for "u:"
KnownAuth ==
    IF proxyCreds = <<117, 58, 112>>
    THEN <<66, 97, 115, 105, 99, 32, 100, 84, 112, 119>>
    ELSE <<66, 97, 115, 105, 99, 32, 100, 84, 111, 61>>

\* the request carries exactly the expected Proxy-Authorization value
CredCheckPassed == rq.hdr = KnownAuth

\* the host:port the request names, 443 when it names no port
RequestedTarget ==
    LET host == EffectiveHost(rq.host, rq.path)
    IN  IF \E i \in 1..Len(host) : host[i] = ":"
        THEN host
        ELSE host \o <<":", "4", "4", "3">>

\* the dialed address without its brackets
Unbracket(a) == SelectSeq(a, LAMBDA ch : ch \notin {"[", "]"})

\* C6: with proxy credentials configured, a dial, a forward or a 200 response
\* happens only for a request whose Proxy-Authorization is exactly "Basic " +
\* base64(credentials); any other request gets status 400 and no dial; a
\* CONNECT whose dial succeeded gets status 200, and the relay that follows
\* runs raw to the requested host:port
C6_ConnectNeedsCredentials ==
    (proxyCreds # <<>> /\ rq.pc # "none") =>
        /\ ( \/ rq.dials > 0
             \/ rq.rOpen
             \/ rq.responded = StatusOK
             \/ rq.pc \in {"dial", "forward", "relay"} ) => CredCheckPassed
        /\ (~CredCheckPassed /\ rq.pc \in {"respond", "done"}) =>
              /\ rq.status = StatusBadRequest
              /\ rq.responded \in {0, StatusBadRequest}
              /\ rq.dials = 0
              /\ ~rq.hijack
        /\ rq.rOpen =>
              /\ rq.method = "CONNECT"
              /\ rq.status = StatusOK
              /\ rq.responded \in {0, StatusOK}
              /\ Unbracket(rq.raddr) = RequestedTarget
        /\ rq.pc = "relay" => rq.rOpen /\ rq.responded = StatusOK
        /\ IsPrefix(rq.trecv, rq.stream)

C6_Witness ==
    /\ proxyCreds # <<>>
    /\ rq.pc = "relay"
    /\ rq.responded = StatusOK
    /\ rq.trecv # <<>>

\* C7: when a handler has finished, the client connection was closed once,
\* and the target connection was closed once if it was opened and never
\* otherwise
C7_ClosedExactlyOnce ==
    /\ \A s \in Sessions :
         sv[s].pc = "done" =>
            /\ sv[s].cClose = 1
            /\ sv[s].rClose = IF sv[s].rOpen THEN 1 ELSE 0
    /\ rq.pc = "done" =>
            /\ rq.rClose = IF rq.rOpen THEN 1 ELSE 0
            /\ rq.rOpen => rq.cClose = 1

\* the same for the sessions of the framed-protocol handler alone
C7_ServeClosesOnce ==
    \A s \in Sessions :
        /\ sv[s].cClose <= 1
        /\ sv[s].rClose <= 1
        /\ sv[s].pc = "done" =>
              /\ sv[s].cClose = 1
              /\ sv[s].rClose = IF sv[s].rOpen THEN 1 ELSE 0

(* ------------------------ framed-protocol handler ---------------------- *)

\* session s returned before its relay began
HandshakeFailed(s) == sv[s].pc = "done" /\ sv[s].outcome # "relayed"

\* C11: a session whose handshake fails (read error, short read, missing or
\* misplaced newline, wrong token, dial failure, leftover-write failure) has
\* had no byte written to its client connection, which is closed; bytes are
\* written to a client only during a relay behind a matching token, a
\* well-framed handshake and a successful dial.
C11_SilentFailure ==
    \A s \in Sessions :
      /\ HandshakeFailed(s) => sv[s].cwritten = 0 /\ sv[s].cClose = 1
      /\ sv[s].cwritten > 0 =>
           /\ TokenMatches(s) /\ WellFramed(s)
           /\ sv[s].rOpen /\ sv[s].up # "none"

\* C11 witness: two sessions failed in different ways, one on its token and
\* one on its dial, and neither client received a byte
C11_Witness ==
    \E s, u \in Sessions :
      /\ HandshakeFailed(s) /\ sv[s].outcome = "auth" /\ ~TokenMatches(s)
      /\ HandshakeFailed(u) /\ sv[u].outcome = "dial" /\ sv[u].dials = 1
      /\ sv[s].cwritten = 0 /\ sv[u].cwritten = 0
      /\ sv[s].cClose = 1 /\ sv[u].cClose = 1

\* C12: the buffer serve took from the pool is put back exactly once on every
\* path: it is held from bytePool.Get until the handler returns or the relay
\* begins, never put twice, never used after it was put back, and no
\* session holds a buffer while a relay copy runs.
C12_BufferReturnedOnce ==
    \A s \in Sessions :
      /\ sv[s].puts <= 1
      /\ ~sv[s].uap
      /\ sv[s].held <=> sv[s].pc \in {"read", "dial", "leftover"}
      /\ sv[s].held => sv[s].puts = 0 /\ sv[s].up = "none"
      /\ sv[s].pc = "done" => sv[s].puts = 1
      /\ (sv[s].pc = "relay" \/ sv[s].up # "none") => sv[s].puts = 1 /\ ~sv[s].held

\* C12 witness: one session relays after it put its buffer back, and another
\* put its buffer back when the write of its leftover bytes failed
C12_Witness ==
    \E s, u \in Sessions :
      /\ sv[s].pc = "relay" /\ sv[s].up = "run" /\ sv[s].puts = 1
      /\ sv[u].pc = "done" /\ sv[u].outcome = "write" /\ sv[u].puts = 1

(* ------------------------- the handshake alone ------------------------- *)

\* the initial read took all that was sent, or as much as the buffer holds
OneRead == ps.n = Min(Len(ps.sent), bufLen)

\* what was sent starts with the secret, and its first newline lies behind it
SentFramed ==
    /\ IsPrefix(credsByte, ps.sent)
    /\ IndexRune(ps.sent, NL) >= credsLen

\* the address that was sent: the bytes between the secret and the newline
SentAddr == SubSeq(ps.sent, credsLen + 1, IndexRune(ps.sent, NL))

\* C13: of a handshake that arrives in the initial read, an address of up to
\* 261 bytes (253 + 2 + 1 + 5) followed by a newline passes the checks and is
\* handed to the dial whole; an address of 262 bytes or more is rejected
\* before the dial, never dialed truncated.
C13_AddressBoundary ==
    (ps.pc = "parsed" /\ OneRead /\ SentFramed) =>
        /\ (1 <= Len(SentAddr) /\ Len(SentAddr) <= MaxAddrLen) =>
              ps.verdict = "ok" /\ ps.addr = SentAddr
        /\ Len(SentAddr) > MaxAddrLen => ps.verdict # "ok" /\ ps.addr = <<>>
        /\ ps.verdict = "ok" => ps.addr = SentAddr

\* C13 witness: an address of 261 bytes behind a secret of two bytes was read
\* and passed whole, the read filling the buffer to its last byte
C13_Witness ==
    /\ ps.pc = "parsed" /\ OneRead /\ SentFramed
    /\ credsLen = 2
    /\ Len(SentAddr) = MaxAddrLen
    /\ ps.n = bufLen
    /\ ps.verdict = "ok"
    /\ Len(ps.addr) = 261

\* the bytes of the initial read of session s that lie behind its newline
Leftover(s) ==
    SubSeq(AfterHandshake(s), 1,
           sv[s].first - (Len(sv[s].stream) - Len(AfterHandshake(s))))

\* C14: a session makes at most one dial; a relay copy, in either direction,
\* runs only behind a successful dial and the complete write of the leftover
\* bytes; a session whose dial or leftover write failed has returned with no
\* copy started.
C14_NoRelayAfterFailure ==
    \A s \in Sessions :
      /\ sv[s].dials <= 1
      /\ (sv[s].up # "none" \/ sv[s].pc = "relay" \/ sv[s].cwritten > 0) =>
           /\ sv[s].rOpen
           /\ sv[s].dials = 1
           /\ IsPrefix(Leftover(s), sv[s].trecv)
      /\ (sv[s].dials = 1 /\ ~sv[s].rOpen) =>
           sv[s].pc = "done" /\ sv[s].up = "none" /\ sv[s].trecv = <<>>
      /\ (sv[s].rOpen /\ sv[s].pc \in {"relay", "done"}
            /\ ~IsPrefix(Leftover(s), sv[s].trecv)) =>
           sv[s].pc = "done" /\ sv[s].up = "none" /\ sv[s].cwritten = 0

\* C14 witness: one session's dial failed and another's leftover write
\* stopped short; both returned after one dial with no copy started
C14_Witness ==
    \E s, u \in Sessions :
      /\ sv[s].pc = "done" /\ sv[s].dials = 1 /\ ~sv[s].rOpen
      /\ sv[s].up = "none"
      /\ sv[u].pc = "done" /\ sv[u].rOpen /\ sv[u].dials = 1
      /\ Len(sv[u].trecv) < Len(Leftover(u))
      /\ sv[u].up = "none"

(* --------------------------- CONNECT adapter --------------------------- *)

\* the dial of the CONNECT request failed
ConnectDialFailed == rq.dials > 0 /\ ~rq.rOpen

\* C15: when the dial of a CONNECT request fails the status is 500, the
\* client is never sent a 200, the connection is not hijacked and no copy
\* runs; a CONNECT request has the status 200 only behind a successful dial.
C15_DialFailureIsServerError ==
    /\ ConnectDialFailed =>
          /\ rq.status = StatusInternalServerError
          /\ rq.responded \in {0, StatusInternalServerError}
          /\ ~rq.hijack
          /\ rq.pc \in {"respond", "done"}
          /\ rq.up = "none" /\ rq.trecv = <<>> /\ rq.cwritten = 0
    /\ (rq.method = "CONNECT" /\ (rq.status = StatusOK \/ rq.responded = StatusOK)) =>
          rq.rOpen /\ rq.dials = 1
    /\ (rq.hijack \/ rq.up # "none" \/ rq.pc = "relay") => rq.rOpen

\* C15 witness: the dial failed and the client was sent the status 500
C15_Witness ==
    /\ ConnectDialFailed
    /\ rq.method = "CONNECT"
    /\ rq.pc = "done"
    /\ rq.responded = StatusInternalServerError

(* ----------------------------- relay end ------------------------------- *)

\* the handler of session s returned from io.Copy(c, r)
RelayReturned(s) == sv[s].pc = "done" /\ sv[s].outcome = "relayed"

\* C16: once io.Copy(c, r) has returned in the handler both connections are
\* closed, and the copy io.Copy(r, c) of the goroutine, if it still runs,
\* ends: no copy of a finished session runs or waits forever.
C16_OppositeCopyEnds ==
    /\ [](\A s \in Sessions :
            RelayReturned(s) => sv[s].cClose = 1 /\ sv[s].rClose = 1)
    /\ \A s \in Sessions :
         (RelayReturned(s) /\ sv[s].up = "run") ~> (sv[s].up # "run")

\* C16 witness: the handler has returned and closed both connections while
\* the goroutine's copy has not ended yet, the client still being there
C16_Witness ==
    \E s \in Sessions :
      /\ RelayReturned(s) /\ sv[s].up = "run"
      /\ ~sv[s].cGone
      /\ sv[s].cpos = Len(sv[s].stream)
      /\ sv[s].cClose = 1 /\ sv[s].rClose = 1

(* ------------------------------ deadlines ------------------------------ *)

\* C17: the initial read runs under a read deadline on c; when a relay copy
\* runs no deadline is set on either connection: the read deadline was
\* cleared behind the read, and the write deadline of the leftover write,
\* set only for a non-empty leftover, was cleared behind the write.
C17_NoDeadlineInRelay ==
    \A s \in Sessions :
      /\ sv[s].pc = "read" => sv[s].rdl
      /\ (sv[s].pc = "relay" \/ sv[s].up = "run") => ~sv[s].rdl /\ ~sv[s].wdl
      /\ sv[s].pc \in {"dial", "leftover"} => ~sv[s].rdl /\ ~sv[s].wdl
      /\ sv[s].wdl => sv[s].outcome = "write" /\ Leftover(s) # <<>>

\* C17 witness: a relay runs behind a leftover write, with no deadline set
C17_Witness ==
    \E s \in Sessions :
      /\ sv[s].pc = "relay" /\ sv[s].up = "run"
      /\ Leftover(s) # <<>>
      /\ IsPrefix(Leftover(s), sv[s].trecv)
      /\ ~sv[s].rdl /\ ~sv[s].wdl

(* ------------------------- accept and dispatch ------------------------- *)

\* C18: every connection handed to a handler had TCP keepalive enabled on it
\* by acceptConn before go serve(c), and the accept loop goes on to the next
\* accept while handlers of earlier connections have not returned.
C18_KeepaliveThenDispatch ==
    /\ \A s \in Sessions : sv[s].spawned => sv[s].keepalive
    /\ (Alive /\ pending > 0) => ENABLED AcceptOk

\* the accept loop does not wait for a handler: while the process runs and a
\* client is to connect, the accept can return whatever the handlers do
C18_AcceptNotBlocked == (Alive /\ pending > 0) => ENABLED AcceptOk

\* a handler waits in its relay while a later connection is given to another
C18_DispatchWitness ==
    \E s, u \in Sessions :
      /\ s < u
      /\ sv[s].pc = "relay" /\ ~sv[s].tGone /\ sv[s].tpend = 0
      /\ sv[u].spawned

(* --------------------------- slice bounds ------------------------------ *)

\* C19: for a secret of any length, any n from 0 to bufLen that the initial
\* read returns and any bytes in the buffer, every slice expression serve
\* evaluates is in range: buf[:n], addr[:credsLen], addr[idx+1:] and
\* addr[credsLen:idx], the last two only with credsLen < idx < n.
C19_SlicesInRange ==
    ps.pc = "parsed" =>
        /\ ~ps.panicked
        /\ ps.n <= bufLen
        /\ ps.verdict \in {"auth", "ok"} => credsLen <= ps.n
        /\ ps.verdict = "ok" =>
              /\ credsLen < ps.idx /\ ps.idx < ps.n
              /\ Len(ps.addr) = ps.idx - credsLen
              /\ Len(ps.rest) = ps.n - ps.idx - 1

\* C19 witness: behind a secret that holds a newline, a read that fills the
\* buffer was taken through the checks without a slice out of range
C19_Witness ==
    /\ ps.pc = "parsed"
    /\ credsByte = <<1, NL>>
    /\ ps.n = bufLen
    /\ ps.verdict = "bad_idx"
    /\ ~ps.panicked

(* ----------------------- CONNECT adapter: target ----------------------- *)

\* C20: the target connection a successful dial of httpsHandler opened is
\* closed once the handling of the request is over, whether the callback
\* given to ctx.Hijack returned or was never run.
C20_TargetEventuallyClosed ==
    (rq.rOpen /\ rq.pc = "done") ~> (rq.rClose > 0)

\* the callback of a CONNECT request returned from io.Copy(clientConn, r)
HijackReturned == rq.pc = "done" /\ rq.outcome = "relayed"

\* when the callback did run and returned, it closed both connections, and
\* the copy of its goroutine ends
C20_HijackCallbackCloses ==
    /\ [](HijackReturned => rq.rClose = 1 /\ rq.cClose = 1)
    /\ (HijackReturned /\ rq.up = "run") ~> (rq.up # "run")

============================================================================
